---- MODULE Spec2Model ----
(***************************************************************************)
(* Model of pdf_costructor.py: the amortization engine (monthly_payment,   *)
(* calculate_amortization_schedule), the layout corrections of             *)
(* fix_html_layout, the ordered placeholder substitution of                *)
(* _generate_pdf_with_images and the page policy of _add_images_to_pdf.    *)
(*                                                                         *)
(* Numbers.  The program computes with binary floating point.  The model   *)
(* computes with exact rationals: an amount is a whole number of cents, a  *)
(* monthly rate is the reduced fraction p/q of rate/1200, and every figure *)
(* of a schedule is an integer in units of 1/q^months cent (its "scale").  *)
(* The two places where the floating point result depends on the sign of a *)
(* representation error are inputs of the model: fpTieUp (which way        *)
(* round(x, 2) goes when the exact x is a tie that no double represents)   *)
(* and fpBelow (whether a balance whose exact value is 0.01 compares below *)
(* 0.01 after inexact subtractions).  Amounts, durations and rates are of   *)
(* ordinary magnitude: no power overflows and no positive monthly rate is  *)
(* so small that 1 + r evaluates to 1.                                     *)
(***************************************************************************)
EXTENDS Integers, Sequences, FiniteSets, TLC

VARIABLES
    \* ---- amortization engine ----
    amount,      \* principal, in cents
    months,      \* duration
    rate,        \* annual rate, in percent
    fpTieUp,     \* float oracle: an unrepresentable tie rounds up
    fpBelow,     \* float oracle: an inexact balance of 0.01 compares < 0.01
    apc,         \* position of the amortization caller
    payment,     \* result of the last monthly_payment call: [err, val] (val in cents)
    schedule,    \* result of the last calculate_amortization_schedule call
    \* ---- fix_html_layout ----
    ltype,       \* document type whose corrections are applied
    lraw,        \* text of the template
    lonce,       \* the corrections applied once
    ltwice,      \* the corrections applied to lonce
    lpc,         \* position of the layout caller
    \* ---- one generation request ----
    tname,       \* document type of the request
    data,        \* the request mapping as the program sees (and changes) it
    data0,       \* the mapping as the caller passed it
    pc,          \* position of the request in the pipeline
    err,         \* the exception that ended the request, "none" otherwise
    trace,       \* the steps of the pipeline executed so far, in order
    html,        \* the markup being assembled
    laid,        \* the markup returned by fix_html_layout
    replaced,    \* number of replace operations applied to the markup
    sigCase,     \* which image files generate_signatures_table found
    rendered,    \* the markup passed to the rasterizer, <<>> before that
    basePdf,     \* the pages returned by the rasterizer
    overlay,     \* the failure met by the overlay step
    result       \* the byte stream returned to the caller: [returned, pages, fallback, merges]

avars == <<amount, months, rate, fpTieUp, fpBelow, apc>>
cvars == <<payment, schedule>>
lvars == <<ltype, lraw, lonce, ltwice, lpc>>
pvars == <<tname, data, data0, pc, err, trace, html, laid, replaced, sigCase, rendered,
           basePdf, overlay, result>>
vars == <<avars, cvars, lvars, pvars>>

----------------------------------------------------------------------------
\* Bounds of the amortization inputs
MaxAmount == 30
MaxMonths == 7
\* annual rates in percent whose monthly rate is 0, 1/4, 1/2 and 1
Rates == {0, 300, 600, 1200}

----------------------------------------------------------------------------
\* Arithmetic helpers

RECURSIVE Pow(_, _)
Pow(b, e) == IF e <= 0 THEN 1 ELSE b * Pow(b, e - 1)

Abs(x) == IF x < 0 THEN -x ELSE x

RECURSIVE GCD(_, _)
GCD(a, b) == IF b = 0 THEN Abs(a) ELSE GCD(b, a % Abs(b))

RECURSIVE IsPow2(_)
IsPow2(n) == IF n = 1 THEN TRUE ELSE IF n < 1 \/ n % 2 # 0 THEN FALSE ELSE IsPow2(n \div 2)

\* r = (annual_rate / 100) / 12 as the reduced fraction RateP/RateQ
RateP(annual) == annual \div GCD(annual, 1200)
RateQ(annual) == 1200 \div GCD(annual, 1200)

\* a tie at f + 1/2 cent is a double exactly when (2f+1)/200 is dyadic
TieIsExact(f, q) == (2 * f + 1) % 25 = 0 /\ IsPow2(q)

\* round(num/den, 2) of a value given in cents: Python rounds the double to
\* the nearest cent and an exact tie to the even cent
Round2(num, den, q, tieUp) ==
    LET n == IF den < 0 THEN -num ELSE num
        d == Abs(den)
        f == n \div d
        rem == n % d
    IN  IF 2 * rem < d THEN f
        ELSE IF 2 * rem > d THEN f + 1
        ELSE IF TieIsExact(f, q) THEN (IF f % 2 = 0 THEN f ELSE f + 1)
        ELSE IF tieUp THEN f + 1 ELSE f

\* monthly_payment(amount, months, annual_rate)
monthly_payment(amt, n, annual, tieUp) ==
    LET p == RateP(annual)
        q == RateQ(annual)
        up == IF n >= 0 THEN Pow(q + p, n) ELSE Pow(q, -n)     \* (1+r)^n = up/dn
        dn == IF n >= 0 THEN Pow(q, n) ELSE Pow(q + p, -n)
    IN  IF p = 0
        THEN IF n = 0 THEN [err |-> "ZeroDivisionError", val |-> 0]
             ELSE [err |-> "none", val |-> Round2(amt, n, q, tieUp)]
        ELSE IF up = dn THEN [err |-> "ZeroDivisionError", val |-> 0]
             ELSE [err |-> "none",
                   val |-> Round2(amt * p * up, q * (up - dn), q, tieUp)]

\* the comparison balance < 0.01 of the loop, on a balance of scale s
BelowCent(balance, start, s, below) ==
    \/ balance < s
    \/ balance = s /\ balance # start /\ below

\* one pass of the loop body (lines 43-60): the entry appended for period i.
\* PeriodUnadjusted is the body without the adjustment of the last period.
PeriodUnadjusted(i, n, balance, pay, p, q, s, start, below) ==
    LET interest == (balance * p) \div q
        principal == pay - interest
        b1 == balance - principal
        b2 == IF BelowCent(b1, start, s, below) THEN 0 ELSE b1
    IN  [month |-> i, payment |-> pay, interest |-> interest,
         principal |-> principal, balance |-> b2]

Period(i, n, balance, pay, p, q, s, start, below) ==
    LET interest == (balance * p) \div q
        principal == IF i = n THEN balance ELSE pay - interest
        pay2 == IF i = n THEN principal + interest ELSE pay
        b1 == balance - principal
        b2 == IF BelowCent(b1, start, s, below) THEN 0 ELSE b1
    IN  [month |-> i, payment |-> pay2, interest |-> interest,
         principal |-> principal, balance |-> b2]

\* the loop of calculate_amortization_schedule from period i on
RECURSIVE ScheduleFrom(_, _, _, _, _, _, _, _, _)
ScheduleFrom(i, n, balance, pay, p, q, s, start, below) ==
    IF i > n THEN <<>>
    ELSE LET e == Period(i, n, balance, pay, p, q, s, start, below)
         IN  <<e>> \o ScheduleFrom(i + 1, n, e.balance, e.payment, p, q, s, start, below)

\* calculate_amortization_schedule(amount, months, rate); figures are in
\* units of 1/scale cent
calculate_amortization_schedule(amt, n, annual, tieUp, below) ==
    LET p == RateP(annual)
        q == RateQ(annual)
        s == Pow(q, n)
        mp == monthly_payment(amt, n, annual, tieUp)
    IN  IF mp.err # "none" THEN [err |-> mp.err, scale |-> s, entries |-> <<>>]
        ELSE [err |-> "none", scale |-> s,
              entries |-> ScheduleFrom(1, n, amt * s, mp.val * s, p, q, s, amt * s, below)]

----------------------------------------------------------------------------
\* Markup.  An HTML text is a sequence of lexemes; a lexeme stands for one
\* piece of text that the patterns of the program match as a whole.

DocTypes == {"contratto", "garanzia", "carta", "approvazione"}

HeadEnd == "</head>"
BodyEnd == "</body>"
StyleAuto == " style=\"height: auto !important;\""
NL == "\n"
BrBr == "<br><br>"
\* .name{...height: NNNpt...} with NNN >= 500, and what the program makes of it
TallRule == ".c{height:700pt}"
AutoRule == ".c{height:auto;}"
\* the image blocks and empty elements named by the patterns
MiddleImages == "<p class=\"c3\"><span><img image1></span><span><img image2></span><span><img image4></span></p>"
LogoBlock == "<p class=\"c12\"><span><img image1></span></p>"
SealBlock == "<span><img image2></span>"
SignBlock == "<span><img image3></span>"
ImgTag == "<img>"
OverflowSpan == "<span style=\"overflow:\">t</span>"
EmptyDiv18 == "<div><p class=\"c6 c18\"><span class=\"c7 c23\"></span></p></div>"
EmptyP36 == "<p class=\"c3 c6\"><span class=\"c7 c12\"></span></p>"
EmptyP624 == "<p class=\"c6 c24\"><span class=\"c7 c12\"></span></p>"
EmptyP6 == "<p class=\"c6\"><span class=\"c7\"></span></p>"
EmptyP == "<p><span></span></p>"
EmptyDiv == "<div></div>"
ClassC(n) == "class=\"c" \o ToString(n) \o "\""

\* the <style> block injected for a document type (lines 536-548, 555-575, 578-678)
CssFixes(t) ==
    IF t = "garanzia" THEN "<style garanzia>"
    ELSE IF t \in {"carta", "approvazione"} THEN "<style carta>"
    ELSE "<style contratto>"

\* str.replace(old, new) for a one-lexeme old: every occurrence, left to right
RECURSIVE ReplaceAll(_, _, _)
ReplaceAll(h, old, new) ==
    IF h = <<>> THEN <<>>
    ELSE (IF Head(h) = old THEN new ELSE <<Head(h)>>) \o ReplaceAll(Tail(h), old, new)

\* re.sub(pattern, '', html) for a pattern that matches exactly the lexeme
RemoveAll(h, lex) == ReplaceAll(h, lex, <<>>)

\* re.sub(pattern + '$', '', html): '$' matches at the end of the text and
\* before a newline that ends the text
StripAtEnd(h, lex) ==
    LET n == Len(h)
    IN  IF n >= 1 /\ h[n] = lex THEN SubSeq(h, 1, n - 1)
        ELSE IF n >= 2 /\ h[n] = NL /\ h[n - 1] = lex THEN SubSeq(h, 1, n - 2) \o <<NL>>
        ELSE h

\* str.rstrip()
RECURSIVE RStrip(_)
RStrip(h) ==
    IF h # <<>> /\ h[Len(h)] = NL THEN RStrip(SubSeq(h, 1, Len(h) - 1)) ELSE h

\* str.rfind(lex): the last index of lex, 0 when absent
RECURSIVE RFind(_, _)
RFind(h, lex) ==
    IF h = <<>> THEN 0
    ELSE IF h[Len(h)] = lex THEN Len(h) ELSE RFind(SubSeq(h, 1, Len(h) - 1), lex)

\* re.sub(r'(E\s*)+$', '', h) for the elements E of a set: the text is cut at
\* the first element of the longest run of elements and whitespace that
\* reaches the end of the text
RECURSIVE RunStart(_, _, _)
RunStart(h, elems, k) ==
    IF k >= 1 /\ h[k] \in elems \cup {NL} THEN RunStart(h, elems, k - 1) ELSE k + 1

CutTrailingRun(h, elems) ==
    LET from == RunStart(h, elems, Len(h))
        firsts == {k \in from..Len(h) : h[k] \in elems}
    IN  IF firsts = {} THEN h
        ELSE SubSeq(h, 1, (CHOOSE k \in firsts : \A j \in firsts : k <= j) - 1)

\* every <p ...><span ...></span></p> and every <div ...></div> lexeme
EmptyParagraphs == {EmptyP36, EmptyP624, EmptyP6, EmptyP}
EmptyDivs == {EmptyDiv}

AddStyle(h, n) == ReplaceAll(h, ClassC(n), <<ClassC(n), StyleAuto>>)

\* lines 532-534: re.sub(r'<img[^>]*>', '') then the overflow spans to <br><br>
GaranziaLexeme(x) ==
    IF x = ImgTag THEN <<>>
    ELSE IF x \in {OverflowSpan, SealBlock, SignBlock} THEN <<BrBr>>
    ELSE IF x = LogoBlock THEN <<"<p class=\"c12\">", BrBr, "</p>">>
    ELSE IF x = MiddleImages THEN <<"<p class=\"c3\">", BrBr, BrBr, BrBr, "</p>">>
    ELSE <<x>>

RECURSIVE GaranziaClean(_)
GaranziaClean(h) ==
    IF h = <<>> THEN <<>> ELSE GaranziaLexeme(Head(h)) \o GaranziaClean(Tail(h))

InjectCss(h, t) == ReplaceAll(h, HeadEnd, <<CssFixes(t), HeadEnd>>)

\* lines 684-696
ContrattoFixes(h) ==
    LET h1 == RemoveAll(h, MiddleImages)
        h2 == StripAtEnd(h1, EmptyDiv18)
        h3 == StripAtEnd(h2, EmptyP36)
        h4 == StripAtEnd(h3, EmptyP624)
    IN  AddStyle(AddStyle(h4, 13), 19)

\* lines 717-722
CartaTail(h) ==
    LET body_end == RFind(h, BodyEnd)
        c1 == RStrip(SubSeq(h, 1, body_end - 1))
        c2 == CutTrailingRun(c1, EmptyParagraphs)
        c3 == CutTrailingRun(c2, EmptyDivs)
    IN  IF body_end = 0 THEN h ELSE c3 \o <<NL, BodyEnd, "</html>">>

\* lines 698-722
CartaFixes(h) ==
    LET h1 == RemoveAll(RemoveAll(RemoveAll(h, LogoBlock), SealBlock), SignBlock)
        h2 == RemoveAll(RemoveAll(RemoveAll(RemoveAll(h1, EmptyDiv18), EmptyP36), EmptyP624), EmptyP6)
        h3 == AddStyle(AddStyle(AddStyle(AddStyle(h2, 13), 19), 5), 9)
    IN  CartaTail(h3)

\* the corrections of fix_html_layout applied to the text of a template
FixMarkup(t, raw) ==
    IF t = "garanzia" THEN InjectCss(GaranziaClean(raw), t)
    ELSE LET h1 == InjectCss(raw, t)
             h2 == IF t = "contratto" THEN ContrattoFixes(h1) ELSE CartaFixes(h1)
             h3 == AddStyle(AddStyle(h2, 5), 9)
         IN  ReplaceAll(h3, TallRule, <<AutoRule>>)

----------------------------------------------------------------------------
\* Formatting

Pad2(n) == IF n < 10 THEN "0" \o ToString(n) ELSE ToString(n)
Pad3(n) == IF n < 100 THEN "0" \o Pad2(n) ELSE ToString(n)

\* the thousands grouping of "{:,}" with ',' replaced by ' '
RECURSIVE Grouped(_)
Grouped(n) == IF n < 1000 THEN ToString(n) ELSE Grouped(n \div 1000) \o " " \o Pad3(n % 1000)

\* format_money of a figure of num/den cents: f"{amount:,.2f}".replace(',', ' ')
format_money(num, den, q, tieUp) ==
    LET c == Round2(num, den, q, tieUp)
        a == Abs(c)
        neg == (num < 0 /\ den > 0) \/ (num > 0 /\ den < 0)
    IN  (IF neg THEN "-" ELSE "") \o Grouped(a \div 100) \o "." \o Pad2(a % 100)

\* f"{x:.2f}%" of a whole number of percent
FormatPercent(x) == (IF x < 0 THEN "-" ELSE "") \o ToString(Abs(x)) \o ".00%"

\* the k decimals of rem/q, for a fraction that has no more than k decimals
RECURSIVE Decimals(_, _, _)
Decimals(rem, q, k) ==
    IF k = 0 THEN "" ELSE ToString((rem * 10) \div q) \o Decimals((rem * 10) % q, q, k - 1)

\* f"{monthly_rate:.10f}"
FormatRate(annual) ==
    LET p == RateP(annual)
        q == RateQ(annual)
    IN  (IF p < 0 THEN "-" ELSE "") \o ToString(Abs(p) \div q) \o "." \o Decimals(Abs(p) % q, q, 10)

\* format_date(): the current date as dd/mm/YYYY
Today == "04/11/2026"

----------------------------------------------------------------------------
\* Injected content

Placeholder == "XXX"
AmortToken == "{{AMORTIZATION_TABLE}}"
RateToken == "PAYMENT_SCHEDULE_MONTHLY_RATE"
PaymentToken == "PAYMENT_SCHEDULE_MONTHLY_PAYMENT"
TotalToken == "PAYMENT_SCHEDULE_TOTAL_PAYMENTS"
OverpayToken == "PAYMENT_SCHEDULE_OVERPAYMENT"
DateToken == "11/06/2025"
SigToken == "<!-- SIGNATURES_TABLE_PLACEHOLDER -->"
PageBreakDiv == "<div style=\"page-break-before: always;\"></div>"
DashLine == "<p class=\"c2\"><span class=\"c1\">----------</span></p>"
DashLineFirme == "<p class=\"c2 section-7-firme\"><span class=\"c1\">------------------------------------------</span></p>"
FirmeHeading == "<p class=\"c2\"><span class=\"c12 c6\">7. Firme</span></p>"
Euro == "&euro; "

\* generate_amortization_html(schedule): one lexeme per cell
RECURSIVE AmortRows(_, _, _, _)
AmortRows(entries, s, q, tieUp) ==
    IF entries = <<>> THEN <<>>
    ELSE LET e == Head(entries)
         IN  <<"<tr>", ToString(e.month),
               Euro \o format_money(e.payment, s, q, tieUp),
               Euro \o format_money(e.interest, s, q, tieUp),
               Euro \o format_money(e.principal, s, q, tieUp),
               Euro \o format_money(IF e.balance > 0 THEN e.balance ELSE 0, s, q, tieUp),
               "</tr>">> \o AmortRows(Tail(entries), s, q, tieUp)

generate_amortization_html(sched, q, tieUp) ==
    <<"<table class=\"c18\">", "<tr>Mese Rata Interessi Capitale Residuo</tr>">>
    \o AmortRows(sched.entries, sched.scale, q, tieUp) \o <<"</table>">>

\* The image files read by generate_signatures_table: all three present with
\* base64 text free of the letters XXX, present with XXX inside the base64
\* text of the seal, or one of them missing.
SigImageCases == {"plain", "xxx", "missing"}

Base64(file, case) ==
    IF case = "xxx" /\ file = "seal.png"
    THEN <<"data:image/png;base64,iVBORw0K", Placeholder, "kJggg==">>
    ELSE <<"data:image/png;base64,iVBORw0K/" \o file>>

generate_signatures_table(case) ==
    IF case = "missing" THEN <<>>
    ELSE <<"<div class=\"signatures-tables-wrapper\"><table class=\"signatures-table-base\"><img src=">>
         \o Base64("seal.png", case)
         \o <<"class=\"seal-img\"></table><table class=\"signatures-table-overlay\"><img src=">>
         \o Base64("sing_2.png", case)
         \o <<"class=\"sing-img\"><img src=">>
         \o Base64("sing_1.png", case)
         \o <<"class=\"sing-img\"></table></div>">>

----------------------------------------------------------------------------
\* Placeholder substitution (_generate_pdf_with_images, lines 207-282)

Keys == {"name", "amount", "duration", "tan", "taeg", "payment"}

\* the data fields that the substitution of a document type reads
FieldsRead(t) ==
    IF t = "contratto" THEN {"tan", "payment", "duration", "amount", "name", "taeg"}
    ELSE IF t = "carta" THEN {"name", "amount", "tan", "duration", "payment"}
    ELSE IF t = "approvazione" THEN {"name", "amount", "tan"}
    ELSE {"name"}

Money(cents) == <<format_money(cents, 1, 1, FALSE)>>

\* the (old, new) pairs of a document type, in the order of the list
Replacements(t, d) ==
    IF t = "contratto"
    THEN << <<Placeholder, d.name>>, <<Placeholder, Money(d.amount)>>,
            <<Placeholder, <<FormatPercent(d.tan)>> >>, <<Placeholder, <<FormatPercent(d.taeg)>> >>,
            <<Placeholder, <<ToString(d.duration) \o " mesi">> >>, <<Placeholder, Money(d.payment)>>,
            <<DateToken, <<Today>> >>, <<Placeholder, d.name>> >>
    ELSE IF t = "carta"
    THEN << <<Placeholder, d.name>>, <<Placeholder, Money(d.amount)>>,
            <<Placeholder, <<FormatPercent(d.tan)>> >>,
            <<Placeholder, <<ToString(d.duration) \o " mesi">> >>, <<Placeholder, Money(d.payment)>> >>
    ELSE IF t = "approvazione"
    THEN << <<Placeholder, d.name>>, <<Placeholder, Money(d.amount)>>,
            <<Placeholder, <<FormatPercent(d.tan)>> >> >>
    ELSE << <<Placeholder, d.name>> >>

\* str.replace(old, new, 1): the leftmost occurrence only
RECURSIVE ReplaceFirst(_, _, _)
ReplaceFirst(h, old, new) ==
    IF h = <<>> THEN <<>>
    ELSE IF Head(h) = old THEN new \o Tail(h)
    ELSE <<Head(h)>> \o ReplaceFirst(Tail(h), old, new)

\* for old, new in replacements: html = html.replace(old, new, 1)
RECURSIVE ApplyReplacements(_, _)
ApplyReplacements(h, reps) ==
    IF reps = <<>> THEN h
    ELSE ApplyReplacements(ReplaceFirst(h, Head(reps)[1], Head(reps)[2]), Tail(reps))

\* the re.sub of lines 244-248: a dashed line followed by the heading of section 7
RECURSIVE MarkSection7(_)
MarkSection7(h) ==
    IF Len(h) < 2 THEN h
    ELSE IF h[1] = DashLine /\ h[2] = FirmeHeading
         THEN <<DashLineFirme, FirmeHeading>> \o MarkSection7(SubSeq(h, 3, Len(h)))
         ELSE <<Head(h)>> \o MarkSection7(Tail(h))

\* lines 228-253 of the contratto branch
ContrattoInjections(h, d, sig) ==
    LET total_payments == d.payment * d.duration
        overpayment == total_payments - d.amount
        h1 == ReplaceAll(h, AmortToken, d.amortization_table)
        h2 == ReplaceAll(h1, RateToken, <<FormatRate(d.tan)>>)
        h3 == ReplaceAll(h2, PaymentToken, <<Euro \o Money(d.payment)[1]>>)
        h4 == ReplaceAll(h3, TotalToken, <<Euro \o Money(total_payments)[1]>>)
        h5 == ReplaceAll(h4, OverpayToken, <<Euro \o Money(overpayment)[1]>>)
        h6 == MarkSection7(RemoveAll(h5, PageBreakDiv))
    IN  ReplaceAll(h6, SigToken, generate_signatures_table(sig))

\* the whole substitution: KeyError while the values are looked up, before
\* any text is replaced; otherwise the text handed to the rasterizer.
\* SubstituteLazy looks a value up only when its placeholder is replaced.
SubstituteLazy(t, h, d, sig) ==
    IF ~(FieldsRead(t) \subseteq d.keys)
    THEN [err |-> "KeyError", html |-> ReplaceFirst(h, Placeholder, <<"?">>), replaced |-> 1]
    ELSE [err |-> "none", replaced |-> Len(Replacements(t, d)) + (IF t = "contratto" THEN 8 ELSE 0),
          html |-> ApplyReplacements(IF t = "contratto" THEN ContrattoInjections(h, d, sig) ELSE h,
                                     Replacements(t, d))]

Substitute(t, h, d, sig) ==
    IF ~(FieldsRead(t) \subseteq d.keys)
    THEN [err |-> "KeyError", html |-> h, replaced |-> 0]
    ELSE [err |-> "none", replaced |-> Len(Replacements(t, d)) + (IF t = "contratto" THEN 8 ELSE 0),
          html |-> ApplyReplacements(IF t = "contratto" THEN ContrattoInjections(h, d, sig) ELSE h,
                                     Replacements(t, d))]

----------------------------------------------------------------------------
\* Overlay (_add_images_to_pdf, lines 295-520).  A PDF is its sequence of
\* pages; a page records which page of the rasterizer it is and the overlay
\* assets merged into it.

MaxPages == 3

Asset(file, cell) == [file |-> file, cell |-> cell]

\* the pages drawn on the overlay canvas of a document type;
\* OverlayPagesSingle is the canvas without the showPage() of line 482
OverlayPagesSingle(t) ==
    IF t = "garanzia"
    THEN << {Asset("company.png", 27), Asset("seal.png", 590), Asset("sing_1.png", 593)} >>
    ELSE IF t = "carta"
    THEN << {Asset("company.png", 52), Asset("seal.png", 740), Asset("sing_1.png", 768)} >>
    ELSE IF t = "approvazione"
    THEN << {Asset("company.png", 52), Asset("seal.png", 590), Asset("sing_1.png", 593)} >>
    ELSE << {Asset("company.png", 52), Asset("logo.png", 71)} >>

OverlayPages(t) ==
    IF t = "garanzia"
    THEN << {Asset("company.png", 27), Asset("seal.png", 590), Asset("sing_1.png", 593)} >>
    ELSE IF t = "carta"
    THEN << {Asset("company.png", 52), Asset("seal.png", 740), Asset("sing_1.png", 768)} >>
    ELSE IF t = "approvazione"
    THEN << {Asset("company.png", 52), Asset("seal.png", 590), Asset("sing_1.png", 593)} >>
    ELSE << {Asset("company.png", 52), Asset("logo.png", 71)}, {Asset("logo.png", 71)} >>

\* the image files opened while the overlay is drawn
AssetFiles(t) == UNION {{a.file : a \in OverlayPages(t)[i]} : i \in 1..Len(OverlayPages(t))}

\* HTML(...).write_pdf(): n pages without overlay
BasePdf(n) == [i \in 1..n |-> [base |-> i, assets |-> {}]]

\* What can go wrong in the overlay step: nothing, an image file that cannot
\* be opened, or the merge of page k raising.
OverlayFailures ==
    {[kind |-> "none", file |-> "", page |-> 0]}
    \cup {[kind |-> "asset", file |-> f, page |-> 0] : f \in {"company.png", "seal.png", "sing_1.png", "logo.png"}}
    \cup {[kind |-> "merge", file |-> "", page |-> k] : k \in 1..MaxPages}

\* base_pdf.pages[:1] for carta and approvazione, base_pdf.pages otherwise
PagesToUse(t, pdf) ==
    IF t \in {"carta", "approvazione"} THEN SubSeq(pdf, 1, 1) ELSE pdf

\* the loop of lines 504-507; MergeLoopFirstOnly merges the first page only
MergeLoopFirstOnly(t, pdf) ==
    LET use == PagesToUse(t, pdf)
        ov == OverlayPages(t)
    IN  [i \in 1..Len(use) |->
            IF i = 1 THEN [use[i] EXCEPT !.assets = @ \cup ov[i]] ELSE use[i]]

MergeLoop(t, pdf) ==
    LET use == PagesToUse(t, pdf)
        ov == OverlayPages(t)
    IN  [i \in 1..Len(use) |->
            IF i <= Len(ov) THEN [use[i] EXCEPT !.assets = @ \cup ov[i]] ELSE use[i]]

\* _add_images_to_pdf(pdf_bytes, template_name) under a failure f.
\* add_images_to_pdf_partial writes out, on a failure, the pages as the merge
\* loop left them instead of pdf_bytes.
add_images_to_pdf_partial(pdf, t, f) ==
    LET use == PagesToUse(t, pdf)
        merges == IF Len(use) < Len(OverlayPages(t)) THEN Len(use) ELSE Len(OverlayPages(t))
        failed == \/ f.kind = "asset" /\ f.file \in AssetFiles(t)
                  \/ f.kind = "merge" /\ f.page <= merges
        done == MergeLoop(t, pdf)
    IN  IF failed
        THEN [pages |-> [i \in 1..Len(pdf) |->
                            IF f.kind = "merge" /\ i < f.page THEN done[i] ELSE pdf[i]],
              fallback |-> TRUE,
              merges |-> IF f.kind = "merge" THEN f.page ELSE 0]
        ELSE [pages |-> done, fallback |-> FALSE, merges |-> merges]

add_images_to_pdf(pdf, t, f) ==
    LET use == PagesToUse(t, pdf)
        merges == IF Len(use) < Len(OverlayPages(t)) THEN Len(use) ELSE Len(OverlayPages(t))
        failed == \/ f.kind = "asset" /\ f.file \in AssetFiles(t)
                  \/ f.kind = "merge" /\ f.page <= merges
    IN  IF failed
        THEN [pages |-> pdf, fallback |-> TRUE,
              merges |-> IF f.kind = "merge" THEN f.page ELSE 0]
        ELSE [pages |-> MergeLoop(t, pdf), fallback |-> FALSE, merges |-> merges]

----------------------------------------------------------------------------
\* Idle values of the variables of the parts that a specification leaves out

NoPayment == [err |-> "unset", val |-> 0]
NoSchedule == [err |-> "unset", scale |-> 1, entries |-> <<>>]
NoResult == [returned |-> FALSE, pages |-> <<>>, fallback |-> FALSE, merges |-> 0]
NoFailure == [kind |-> "none", file |-> "", page |-> 0]
NoData == [keys |-> {}, name |-> <<>>, amount |-> 0, duration |-> 0, tan |-> 0, taeg |-> 0,
           payment |-> 0, amortization_table |-> <<>>]

AmortIdle ==
    /\ amount = 0 /\ months = 0 /\ rate = 0 /\ fpTieUp = FALSE /\ fpBelow = FALSE
    /\ apc = "idle"

LayoutIdle ==
    /\ ltype = "none" /\ lraw = <<>> /\ lonce = <<>> /\ ltwice = <<>> /\ lpc = "idle"

PipelineIdle ==
    /\ tname = "none" /\ data = NoData /\ data0 = NoData /\ pc = "idle" /\ err = "none"
    /\ trace = <<>> /\ html = <<>> /\ laid = <<>> /\ replaced = 0 /\ sigCase = "plain"
    /\ rendered = <<>> /\ basePdf = <<>> /\ overlay = NoFailure /\ result = NoResult

----------------------------------------------------------------------------
\* Specification of the amortization engine: the inputs are drawn in Init and
\* the two functions are applied to them.

InitAmort ==
    /\ amount \in 1..MaxAmount
    /\ months \in 1..MaxMonths
    /\ rate \in Rates
    /\ fpTieUp \in BOOLEAN
    /\ fpBelow \in BOOLEAN
    /\ apc = "start"
    /\ payment = NoPayment
    /\ schedule = NoSchedule
    /\ LayoutIdle
    /\ PipelineIdle

CallMonthlyPayment ==
    /\ apc = "start"
    /\ payment' = monthly_payment(amount, months, rate, fpTieUp)
    /\ apc' = "paid"
    /\ UNCHANGED <<amount, months, rate, fpTieUp, fpBelow, schedule, lvars, pvars>>

CallSchedule ==
    /\ apc = "paid"
    /\ schedule' = calculate_amortization_schedule(amount, months, rate, fpTieUp, fpBelow)
    /\ apc' = "done"
    /\ UNCHANGED <<amount, months, rate, fpTieUp, fpBelow, payment, lvars, pvars>>

NextAmort == CallMonthlyPayment \/ CallSchedule

SpecAmort == InitAmort /\ [][NextAmort]_vars

\* The inputs on which neither float oracle is consulted: there the exact
\* arithmetic of the model is the arithmetic of the program.
OracleFree(amt, n, annual) ==
    \A t \in BOOLEAN, b \in BOOLEAN :
        /\ monthly_payment(amt, n, annual, t) = monthly_payment(amt, n, annual, FALSE)
        /\ calculate_amortization_schedule(amt, n, annual, t, b)
              = calculate_amortization_schedule(amt, n, annual, FALSE, FALSE)

InitAmortExact ==
    /\ InitAmort
    /\ fpTieUp = FALSE
    /\ fpBelow = FALSE
    /\ OracleFree(amount, months, rate)

SpecAmortExact == InitAmortExact /\ [][NextAmort]_vars

----------------------------------------------------------------------------
\* Specification of fix_html_layout: the text of the template file is drawn
\* in Init; the corrections are applied to it, and then to their own result.

MaxTemplateLen == 3

\* the lexemes that the template of a document type is made of
TemplateLexemes(t) ==
    {"t", Placeholder, HeadEnd, BodyEnd, NL, TallRule, ImgTag, OverflowSpan,
     EmptyDiv18, EmptyP36, EmptyP624, EmptyP6, EmptyP, EmptyDiv,
     ClassC(13), ClassC(19), ClassC(5), ClassC(9)}
    \cup (IF t = "contratto" THEN {MiddleImages} ELSE {LogoBlock, SealBlock, SignBlock})

InitLayout ==
    /\ ltype \in DocTypes
    /\ lraw \in UNION {[1..n -> TemplateLexemes(ltype)] : n \in 0..MaxTemplateLen}
    /\ lonce = <<>>
    /\ ltwice = <<>>
    /\ lpc = "start"
    /\ AmortIdle /\ payment = NoPayment /\ schedule = NoSchedule
    /\ PipelineIdle

ApplyFix ==
    /\ lpc = "start"
    /\ lonce' = FixMarkup(ltype, lraw)
    /\ lpc' = "once"
    /\ UNCHANGED <<ltype, lraw, ltwice, avars, cvars, pvars>>

ApplyFixAgain ==
    /\ lpc = "once"
    /\ ltwice' = FixMarkup(ltype, lonce)
    /\ lpc' = "twice"
    /\ UNCHANGED <<ltype, lraw, lonce, avars, cvars, pvars>>

NextLayout == ApplyFix \/ ApplyFixAgain

SpecLayout == InitLayout /\ [][NextLayout]_vars

----------------------------------------------------------------------------
\* Specification of one generation request (generate_contratto_pdf,
\* generate_garanzia_pdf, generate_carta_pdf, generate_approvazione_pdf).
\* The request is drawn in Init; the template file, the image files, the
\* rasterizer and the overlay libraries answer when their step runs.

MaxPlaceholders == 8

Names == {<<"Mario Rossi">>, <<"MA", Placeholder, " Rossi">>}
Amounts == {0, 40}
Durations == {-2, 0, 2}
Tans == {-300, 0, 600}
Taegs == {8}
SuppliedPayments == {10}

\* a request mapping with the keys ks
Request(ks, n, a, du, ta) ==
    [keys |-> ks,
     name |-> IF "name" \in ks THEN n ELSE <<>>,
     amount |-> IF "amount" \in ks THEN a ELSE 0,
     duration |-> IF "duration" \in ks THEN du ELSE 0,
     tan |-> IF "tan" \in ks THEN ta ELSE 0,
     taeg |-> IF "taeg" \in ks THEN CHOOSE x \in Taegs : TRUE ELSE 0,
     payment |-> IF "payment" \in ks THEN CHOOSE x \in SuppliedPayments : TRUE ELSE 0,
     amortization_table |-> <<>>]

\* the terms of a request that the error taxonomy calls invalid
InvalidTerms(d) ==
    {k \in {"amount", "duration", "tan"} \cap d.keys :
        \/ k = "amount" /\ d.amount <= 0
        \/ k = "duration" /\ d.duration <= 0
        \/ k = "tan" /\ d.tan < 0}

\* generate_garanzia_pdf(name) builds {'name': name} itself.  The other
\* requests carry any subset of the keys and at most one invalid term (with
\* two, the program prints zeros whose sign the exact arithmetic of the model
\* does not have).
Requests(t) ==
    IF t = "garanzia"
    THEN {Request({"name"}, n, 0, 0, 0) : n \in Names}
    ELSE {r \in {Request(ks, n, a, du, ta) :
                    ks \in SUBSET Keys, n \in Names, a \in Amounts, du \in Durations, ta \in Tans} :
             Cardinality(InvalidTerms(r)) <= 1}

\* x repeated k times
RECURSIVE Repeat(_, _)
Repeat(x, k) == IF k = 0 THEN <<>> ELSE x \o Repeat(x, k - 1)

\* The template files: nx generic placeholders in running text, the named
\* tokens of the contratto template, the signature table before or after the
\* placeholders.
Template(t, nx, sigFirst) ==
    <<"<html>", HeadEnd>>
    \o (IF t = "contratto" /\ sigFirst THEN <<SigToken>> ELSE <<>>)
    \o (IF nx = 0 THEN <<>> ELSE Repeat(<<"t", Placeholder>>, nx - 1))
    \o (IF t = "contratto"
        THEN <<AmortToken, RateToken, PaymentToken, TotalToken, OverpayToken,
               PageBreakDiv, DashLine, FirmeHeading, DateToken>>
        ELSE <<ClassC(5)>>)
    \o (IF nx = 0 THEN <<>> ELSE <<"t", Placeholder>>)
    \o (IF t = "contratto" /\ ~sigFirst THEN <<SigToken>> ELSE <<>>)
    \o <<BodyEnd>>

Templates(t) ==
    {Template(t, nx, sf) : nx \in 0..MaxPlaceholders, sf \in (IF t = "contratto" THEN BOOLEAN ELSE {FALSE})}

Init ==
    /\ tname \in DocTypes
    /\ data \in Requests(tname)
    /\ data0 = data
    /\ pc = "compute"
    /\ err = "none"
    /\ trace = <<>>
    /\ html = <<>>
    /\ laid = <<>>
    /\ replaced = 0
    /\ sigCase = "plain"
    /\ rendered = <<>>
    /\ basePdf = <<>>
    /\ overlay = NoFailure
    /\ result = NoResult
    /\ payment = NoPayment
    /\ schedule = NoSchedule
    /\ AmortIdle
    /\ LayoutIdle

\* an exception leaves the call (lines 290-292 print and re-raise it);
\* FailQuiet ends the call without raising
FailQuiet(e) ==
    /\ pc' = "done"
    /\ err' = e

Fail(e) ==
    /\ pc' = "failed"
    /\ err' = e

\* lines 162-168 and 186-188: the payment is computed when the request has
\* none and is stored in the request; the contratto also gets its schedule
ComputeInputs ==
    /\ pc = "compute"
    /\ trace' = Append(trace, "compute")
    /\ LET needPay == tname \in {"contratto", "carta"} /\ "payment" \notin data.keys
           needSched == tname = "contratto"
           mp == monthly_payment(data.amount, data.duration, data.tan, FALSE)
           sc == calculate_amortization_schedule(data.amount, data.duration, data.tan, FALSE, FALSE)
           d1 == IF needPay THEN [data EXCEPT !.keys = @ \cup {"payment"}, !.payment = mp.val] ELSE data
       IN  IF (needPay \/ needSched) /\ ~({"amount", "duration", "tan"} \subseteq data.keys)
           THEN Fail("KeyError") /\ UNCHANGED <<data, payment, schedule>>
           ELSE IF (needPay \/ needSched) /\ mp.err # "none"
           THEN Fail(mp.err) /\ payment' = mp /\ UNCHANGED <<data, schedule>>
           ELSE /\ payment' = IF needPay \/ needSched THEN mp ELSE payment
                /\ schedule' = IF needSched THEN sc ELSE schedule
                /\ data' = IF needSched
                           THEN [d1 EXCEPT !.keys = @ \cup {"amortization_table"},
                                           !.amortization_table =
                                               generate_amortization_html(sc, RateQ(data.tan), FALSE)]
                           ELSE d1
                /\ pc' = "layout"
                /\ UNCHANGED err
    /\ UNCHANGED <<tname, data0, html, laid, replaced, sigCase, rendered, basePdf, overlay, result,
                   avars, lvars>>

\* fix_html_layout(template_name): the file is read and corrected
LayoutTemplate ==
    /\ pc = "layout"
    /\ trace' = Append(trace, "layout")
    /\ \/ /\ Fail("FileNotFoundError")
          /\ UNCHANGED <<html, laid>>
       \/ \E raw \in Templates(tname) :
             /\ html' = FixMarkup(tname, raw)
             /\ laid' = FixMarkup(tname, raw)
             /\ pc' = "substitute"
             /\ UNCHANGED err
    /\ UNCHANGED <<tname, data, data0, replaced, sigCase, rendered, basePdf, overlay, result,
                   avars, cvars, lvars>>

\* lines 207-282 of _generate_pdf_with_images
SubstitutePlaceholders ==
    /\ pc = "substitute"
    /\ trace' = Append(trace, "substitute")
    /\ \E sig \in (IF tname = "contratto" /\ FieldsRead(tname) \subseteq data.keys
                   THEN SigImageCases ELSE {"plain"}) :
          LET r == Substitute(tname, html, data, sig)
          IN  /\ sigCase' = sig
              /\ html' = r.html
              /\ replaced' = r.replaced
              /\ IF r.err # "none" THEN Fail(r.err)
                 ELSE pc' = "render" /\ UNCHANGED err
    /\ UNCHANGED <<tname, data, data0, laid, rendered, basePdf, overlay, result, avars, cvars, lvars>>

\* line 285: HTML(string=html, base_url='.').write_pdf()
Render ==
    /\ pc = "render"
    /\ trace' = Append(trace, "render")
    /\ rendered' = html
    /\ \/ /\ Fail("RenderError")
          /\ UNCHANGED basePdf
       \/ \E n \in 1..MaxPages :
             /\ basePdf' = BasePdf(n)
             /\ pc' = "overlay"
             /\ UNCHANGED err
    /\ UNCHANGED <<tname, data, data0, html, laid, replaced, sigCase, overlay, result,
                   avars, cvars, lvars>>

\* line 288: return _add_images_to_pdf(pdf_bytes, template_name)
Overlay ==
    /\ pc = "overlay"
    /\ trace' = Append(trace, "overlay")
    /\ \E f \in OverlayFailures :
          LET r == add_images_to_pdf(basePdf, tname, f)
          IN  /\ overlay' = f
              /\ result' = [returned |-> TRUE, pages |-> r.pages, fallback |-> r.fallback,
                            merges |-> r.merges]
    /\ pc' = "done"
    /\ UNCHANGED <<tname, data, data0, err, html, laid, replaced, sigCase, rendered, basePdf,
                   avars, cvars, lvars>>

Next == ComputeInputs \/ LayoutTemplate \/ SubstitutePlaceholders \/ Render \/ Overlay

Spec == Init /\ [][Next]_vars

----------------------------------------------------------------------------
\* Properties of the amortization engine

RECURSIVE SumOf(_, _)
SumOf(entries, field) ==
    IF entries = <<>> THEN 0 ELSE Head(entries)[field] + SumOf(Tail(entries), field)

\* round-half-up of num/den to a whole number, den > 0
RoundHalfUp(num, den) ==
    IF 2 * (num % den) < den THEN num \div den ELSE (num \div den) + 1

\* C1: for principal > 0, months > 0 and rate >= 0 the schedule has exactly
\* `months` entries, their month indexes are 1..months in order, and the
\* balance of the last entry is exactly 0.
C1_ScheduleShape ==
    apc = "done" =>
        /\ schedule.err = "none"
        /\ Len(schedule.entries) = months
        /\ \A i \in 1..months : schedule.entries[i].month = i
        /\ schedule.entries[months].balance = 0

\* a schedule of several periods whose balance is still open before the last
\* period and whose last payment differs from the regular one
C1_Witness ==
    /\ apc = "done"
    /\ months >= 3
    /\ rate > 0
    /\ schedule.entries[months - 1].balance > 0
    /\ schedule.entries[months].payment # schedule.entries[1].payment

\* C2: the sum of the principal portions of the schedule equals the original
\* principal to within 0.01, also when the balance is clamped to 0 before the
\* final period.
C2_PrincipalSum ==
    apc = "done" =>
        Abs(SumOf(schedule.entries, "principal") - amount * schedule.scale) <= schedule.scale

\* C3: at rate zero monthly_payment returns principal / months rounded
\* half-up to the cent, every period has interest 0, and the periods
\* 1..months-1 carry that payment.
C3_ZeroRateHalfUp ==
    (rate = 0 /\ apc \in {"paid", "done"}) =>
        /\ payment.err = "none"
        /\ payment.val = RoundHalfUp(amount, months)
        /\ apc = "done" =>
              /\ \A i \in 1..months : schedule.entries[i].interest = 0
              /\ \A i \in 1..(months - 1) : schedule.entries[i].payment = payment.val * schedule.scale

\* C4: for rate > 0, payment x months differs from principal + the sum of the
\* interest portions by at most months x 0.01.
C4_RoundTripWithinMonthsCents ==
    (apc = "done" /\ rate > 0) =>
        Abs(payment.val * months * schedule.scale
              - (amount * schedule.scale + SumOf(schedule.entries, "interest")))
            <= months * schedule.scale

----------------------------------------------------------------------------
\* Properties of fix_html_layout

\* C9: applying the corrections to markup that has already been corrected
\* yields the same markup as applying them once.
C9_FixIdempotent == lpc = "twice" => ltwice = lonce

----------------------------------------------------------------------------
\* Properties of a generation request

Ran(step) == \E i \in 1..Len(trace) : trace[i] = step

RECURSIVE CountOf(_, _)
CountOf(h, lex) ==
    IF h = <<>> THEN 0 ELSE (IF Head(h) = lex THEN 1 ELSE 0) + CountOf(Tail(h), lex)

\* the fields that section 6 of the specification requires of a request
RequiredFields(t) ==
    IF t = "contratto" THEN {"name", "amount", "duration", "tan", "taeg"}
    ELSE IF t = "carta" THEN {"name", "amount", "duration", "tan"}
    ELSE IF t = "approvazione" THEN {"name", "amount", "tan"}
    ELSE {"name"}

\* C5: a request with a duration <= 0, a negative rate or an amount <= 0 is
\* rejected with InvalidTermsError before any payment or schedule is
\* computed, and monthly_payment fails with InvalidTermsError for months <= 0.
C5_InvalidTermsRejected ==
    /\ (InvalidTerms(data0) # {} /\ RequiredFields(tname) \subseteq data0.keys
            /\ pc # "compute") =>
           /\ pc = "failed"
           /\ err = "InvalidTermsError"
           /\ payment = NoPayment
           /\ schedule = NoSchedule
    /\ (payment # NoPayment /\ "duration" \in InvalidTerms(data0)) =>
           payment.err = "InvalidTermsError"

\* C6: when a field required for the document type is absent from the
\* request, the call raises before any substitution is applied and before
\* the rasterizer is called, and returns no byte stream.
C6_MissingFieldRaisesEarly ==
    ~(RequiredFields(tname) \subseteq data0.keys) =>
        /\ replaced = 0
        /\ html = laid
        /\ ~Ran("render")
        /\ ~result.returned
        /\ pc \in {"compute", "layout", "substitute", "failed"}
        /\ pc = "failed" => err # "none"
        /\ Ran("substitute") => pc = "failed"

\* a card request that supplies a payment but no nominal rate has failed in
\* the substitution step
C6_Witness ==
    /\ tname = "carta"
    /\ "tan" \notin data0.keys
    /\ "payment" \in data0.keys
    /\ trace = <<"compute", "layout", "substitute">>
    /\ pc = "failed"
    /\ err = "KeyError"
    /\ CountOf(laid, Placeholder) > 0

\* the `new` of the pairs of the replacement list whose `old` is XXX
RECURSIVE PlaceholderValues(_)
PlaceholderValues(reps) ==
    IF reps = <<>> THEN <<>>
    ELSE (IF Head(reps)[1] = Placeholder THEN <<Head(reps)[2]>> ELSE <<>>)
         \o PlaceholderValues(Tail(reps))

NamedTokens == {AmortToken, RateToken, PaymentToken, TotalToken, OverpayToken, SigToken}

\* the template has more placeholders than the list has values, or a named
\* token is still in the markup
Unresolved(t, d, tpl, h) ==
    \/ CountOf(tpl, Placeholder) > Len(PlaceholderValues(Replacements(t, d)))
    \/ \E x \in NamedTokens : CountOf(h, x) > 0

\* C7: markup that still contains a placeholder after all substitutions makes
\* the call raise TemplateBindingError and is never passed to the rasterizer.
C7_UnresolvedPlaceholderRaises ==
    (Ran("substitute") /\ FieldsRead(tname) \subseteq data.keys /\ InvalidTerms(data0) = {}
        /\ Unresolved(tname, data, laid, html)) =>
        /\ pc = "failed"
        /\ err = "TemplateBindingError"
        /\ ~Ran("render")

\* the k-th placeholder of h replaced by the k-th value, the other text kept
RECURSIVE FillInOrder(_, _)
FillInOrder(h, vals) ==
    IF h = <<>> \/ vals = <<>> THEN h
    ELSE IF Head(h) = Placeholder THEN Head(vals) \o FillInOrder(Tail(h), Tail(vals))
    ELSE <<Head(h)>> \o FillInOrder(Tail(h), vals)

ExpectedHtml(t, tpl, d, sig) ==
    LET filled == FillInOrder(tpl, PlaceholderValues(Replacements(t, d)))
    IN  IF t = "contratto"
        THEN ReplaceFirst(ContrattoInjections(filled, d, sig), DateToken, <<Today>>)
        ELSE filled

\* C8: the k-th placeholder of the template is replaced by the k-th value of
\* the replacement list, also when a value or injected content contains XXX.
C8_KthPlaceholderGetsKthValue ==
    (pc \in {"render", "overlay", "done"} /\ InvalidTerms(data0) = {}) =>
        html = ExpectedHtml(tname, laid, data, sigCase)

\* C10: every stream returned for a card or approval request has exactly one
\* page, the first page of the rasterizer, whether or not the overlay step
\* succeeded.
C10_OnePageAlways ==
    (result.returned /\ tname \in {"carta", "approvazione"}) =>
        /\ Len(result.pages) = 1
        /\ result.pages[1].base = 1

\* C11: the stream returned for a guarantee request has exactly one page, and
\* that page carries exactly the company mark, the seal at cell 590 and the
\* signature at cell 593, whatever number of pages the rasterizer produced.
C11_GuaranteeOnePageThreeAssets ==
    (result.returned /\ tname = "garanzia") =>
        /\ Len(result.pages) = 1
        /\ result.pages[1].assets
              = {Asset("company.png", 27), Asset("seal.png", 590), Asset("sing_1.png", 593)}

\* the overlay step met its failure: an image file that the document type
\* opens could not be opened, or a merge call that the loop makes raised
OverlayFailed ==
    \/ overlay.kind = "asset" /\ overlay.file \in AssetFiles(tname)
    \/ overlay.kind = "merge" /\ overlay.page <= Len(OverlayPages(tname))
                              /\ overlay.page <= Len(PagesToUse(tname, basePdf))

\* C12: when an asset cannot be loaded or a merge fails, the overlay step
\* raises nothing and returns the output of the rasterizer unchanged, for
\* every document type; merges applied before the failure do not show.
C12_FallbackReturnsBase ==
    Ran("overlay") =>
        /\ pc = "done"
        /\ err = "none"
        /\ result.returned
        /\ OverlayFailed => result.pages = basePdf

\* the merge of page 2 of a contract failed after page 1 had been merged
C12_Witness ==
    /\ Ran("overlay")
    /\ tname = "contratto"
    /\ Len(basePdf) >= 2
    /\ overlay.kind = "merge"
    /\ overlay.page = 2
    /\ OverlayFailed
    /\ result.returned

\* every page of the returned stream that has an overlay page carries the
\* assets of that overlay page
AllMerged ==
    \A i \in 1..Len(result.pages) :
        i <= Len(OverlayPages(tname)) => result.pages[i].assets = OverlayPages(tname)[i]

\* C13 as stated: a call either raises or returns a stream in which every base
\* page that has an overlay page is merged with it; a stream without the
\* overlay graphics is never returned.
C13_NoPartialSuccess ==
    /\ pc = "failed" => (err # "none" /\ ~result.returned)
    /\ result.returned => (pc = "done" /\ AllMerged)

\* C13 amended: a call either raises, or returns a stream in which every base
\* page that has an overlay page is merged with it, or, when the overlay step
\* failed, returns the output of the rasterizer without any overlay graphics.
C13_MergedOrFallback ==
    /\ pc = "failed" => (err # "none" /\ ~result.returned)
    /\ result.returned =>
          /\ pc = "done"
          /\ IF OverlayFailed
             THEN result.pages = basePdf /\ \A i \in 1..Len(result.pages) : result.pages[i].assets = {}
             ELSE AllMerged

\* a contract of three pages came back with both overlay pages merged
C13_Witness ==
    /\ pc = "done"
    /\ tname = "contratto"
    /\ ~OverlayFailed
    /\ Len(result.pages) = 3
    /\ result.pages[2].assets # {}

\* the steps of a generation request, in the order of the code
StepOrder == <<"compute", "layout", "substitute", "render", "overlay">>

\* the step in which an error of each kind is raised
RaisedIn(e) ==
    IF e = "FileNotFoundError" THEN {"layout"}
    ELSE IF e = "RenderError" THEN {"render"}
    ELSE IF e = "KeyError" THEN {"compute", "substitute"}
    ELSE {"compute"}

\* C14: the steps run in the order input computation, template correction,
\* substitution, rasterization, overlay, each at most once; a failure of the
\* template load, of the data lookup or of the rasterizer ends the request
\* with that error, no later step runs and no stream is returned.
C14_StepOrder ==
    /\ Len(trace) <= Len(StepOrder)
    /\ \A i \in 1..Len(trace) : trace[i] = StepOrder[i]
    /\ err # "none" =>
          /\ pc = "failed"
          /\ ~result.returned
          /\ trace # <<>>
          /\ trace[Len(trace)] \in RaisedIn(err)
    /\ pc = "failed" => err # "none"
    /\ result.returned => (pc = "done" /\ trace = StepOrder)

\* the rasterizer raised: the request ended after four steps
C14_Witness ==
    /\ pc = "failed"
    /\ err = "RenderError"
    /\ trace = <<"compute", "layout", "substitute", "render">>
    /\ ~result.returned

C16_EntriesInCents ==
    apc = "done" =>
        \A i \in 1..Len(schedule.entries) :
            /\ schedule.entries[i].payment % schedule.scale = 0
            /\ schedule.entries[i].interest % schedule.scale = 0
            /\ schedule.entries[i].principal % schedule.scale = 0
            /\ schedule.entries[i].balance % schedule.scale = 0

\* C17: a generation call leaves the request mapping of the caller as it was:
\* the same keys with the same values, whether the call returns or raises.
C17_RequestUnchanged ==
    /\ data.keys = data0.keys
    /\ data = data0

\* C18: in an assembled contract the payment printed in the summary fields
\* (data['payment']) is the payment of the entries 1..months-1 of the
\* amortization table, whether the request supplied the payment or not.
C18_PrintedPaymentIsSchedulePayment ==
    (tname = "contratto" /\ pc \in {"render", "overlay", "done"} /\ InvalidTerms(data0) = {}) =>
        \A i \in 1..(Len(schedule.entries) - 1) :
            schedule.entries[i].payment = data.payment * schedule.scale

====
